---- MODULE Spec2Model ----
(***************************************************************************)
(* A model of the SOCKS5 proxy of netsurf916/proxy: one client session     *)
(* (socks5.ClientCtx) from HandleClients' dispatch through processInbound, *)
(* the blacklist lookup, processOutbound (direct and relayed), the two     *)
(* CopyData tasks and the deferred closes of processClient; and the        *)
(* blacklist (filter.Filter): its lookup, its three ingest operations and  *)
(* its deduplication; and the acceptor (Listen) with the dispatcher        *)
(* (HandleClients) and the ClientConnections channel between them.         *)
(*                                                                         *)
(* Strings and byte slices are sequences of byte values (0..255).          *)
(***************************************************************************)
EXTENDS Integers, Sequences, FiniteSets, TLC

(***************************************************************************)
(* Bounds of the model.                                                    *)
(***************************************************************************)
\* longest domain name a client request or an upstream reply carries
MaxDomainLen == 2
\* largest NMETHODS a client greeting announces
MaxNMethods == 2
\* most bytes a peer sends in one direction of the splice
MaxBytes == 2
\* longest list text (list file, HTTP body) drawn byte by byte
MaxTextLen == 3
\* most entries in the JSON blacklist file
MaxEntries == 3
\* longest host string looked up in the blacklist
MaxHostLen == 2
\* most connections the listener accepts
MaxConns == 12

(***************************************************************************)
(* Byte and string helpers (strconv, encoding/hex, strings).               *)
(***************************************************************************)
\* strconv.Itoa(int(data)) for a byte, as ASCII digits
Itoa(b) ==
    IF b < 10 THEN <<48 + b>>
    ELSE IF b < 100 THEN <<48 + (b \div 10), 48 + (b % 10)>>
    ELSE <<48 + (b \div 100), 48 + ((b \div 10) % 10), 48 + (b % 10)>>

HexDigit(d) == IF d < 10 THEN 48 + d ELSE 87 + d

\* hex.EncodeToString([]byte{data})
EncodeToString(b) == <<HexDigit(b \div 16), HexDigit(b % 16)>>

\* strings.ToLower on an ASCII string
ToLower(s) ==
    [i \in 1..Len(s) |-> IF s[i] >= 65 /\ s[i] <= 90 THEN s[i] + 32 ELSE s[i]]

\* the two big-endian bytes of a port: byte((p >> 8) & 0xFF), byte(p & 0xFF)
PortBytes(p) == <<(p \div 256) % 256, p % 256>>

\* n copies of byte b
Repeat(b, n) == [i \in 1..n |-> b]

(***************************************************************************)
(* filter.DomainEntry.Matches and filter.Filter.Matches.                   *)
(***************************************************************************)
\* faulty variant of EntryMatches: the match must start the item or follow a dot
EntryMatchesBoundary(entry, item) ==
    LET substr == Len(item) - Len(entry.Name)
    IN  IF substr < 0 THEN FALSE
        ELSE /\ SubSeq(item, substr + 1, Len(item)) = entry.Name
             /\ (substr = 0 \/ item[substr] = 46)

EntryMatches(entry, item) ==
    LET substr == Len(item) - Len(entry.Name)
    IN  IF substr < 0 THEN FALSE
        ELSE SubSeq(item, substr + 1, Len(item)) = entry.Name

\* the result of Filter.Matches (Hits++ acts on the loop's copy of the entry)
FilterMatches(domains, item) ==
    \E i \in 1..Len(domains) : EntryMatches(domains[i], ToLower(item))

\* the entries of the Filter after Filter.Matches: `domainEntry` is the range
\* loop's copy of the element, so Hits++ changes no stored entry
MatchesDomains(domains, item) == domains

(***************************************************************************)
(* The line format of LoadListFile and LoadHTTP, and deduplicate.          *)
(***************************************************************************)
\* strings.Trim(line, " ")
RECURSIVE TrimLeft(_)
TrimLeft(s) == IF s # <<>> /\ Head(s) = 32 THEN TrimLeft(Tail(s)) ELSE s

RECURSIVE TrimRight(_)
TrimRight(s) ==
    IF s # <<>> /\ s[Len(s)] = 32 THEN TrimRight(SubSeq(s, 1, Len(s) - 1)) ELSE s

Trim(s) == TrimRight(TrimLeft(s))

\* strings.Split(line, " "): the pieces between the spaces, in order
RECURSIVE Split(_)
Split(s) ==
    IF \A i \in 1..Len(s) : s[i] # 32 THEN <<s>>
    ELSE LET k == CHOOSE i \in 1..Len(s) :
                      s[i] = 32 /\ \A j \in 1..(i - 1) : s[j] # 32
         IN  <<SubSeq(s, 1, k - 1)>> \o Split(SubSeq(s, k + 1, Len(s)))

\* the first loop: bytes are gathered in temp; LF or CR ends a line, which is
\* lowercased and kept unless empty.  What temp holds when the bytes run out
\* is not added to the list.
RECURSIVE ScanLines(_, _, _)
ScanLines(data, temp, list) ==
    IF data = <<>> THEN list
    ELSE IF Head(data) # 10 /\ Head(data) # 13
         THEN ScanLines(Tail(data), Append(temp, Head(data)), list)
         ELSE IF Len(temp) = 0
              THEN ScanLines(Tail(data), temp, list)
              ELSE ScanLines(Tail(data), <<>>, Append(list, ToLower(temp)))

\* the second loop: each line is trimmed and lowercased, comment lines are
\* skipped, the last space-separated element is appended with Hits 0.
\* line[0] of a line that was only spaces is an index out of range: panic.
RECURSIVE ParseLines(_, _)
ParseLines(list, domains) ==
    IF list = <<>> THEN [Domains |-> domains, panic |-> FALSE]
    ELSE IF Len(Head(list)) = 0 THEN ParseLines(Tail(list), domains)
    ELSE LET line == ToLower(Trim(Head(list)))
             elements == Split(line)
         IN  IF Len(line) = 0 THEN [Domains |-> domains, panic |-> TRUE]
             ELSE IF line[1] = 35 THEN ParseLines(Tail(list), domains)
             ELSE ParseLines(Tail(list),
                     Append(domains,
                            [Name |-> IF Len(elements) > 1
                                      THEN elements[Len(elements)] ELSE line,
                             Hits |-> 0]))

\* Filter.deduplicate: entry i is added to newlist unless it matches the name
\* of an entry of Domains[i+1:]
RECURSIVE deduplicateFrom(_, _, _)
deduplicateFrom(domains, i, newlist) ==
    IF i > Len(domains) THEN newlist
    ELSE LET add == ~ \E j \in (i + 1)..Len(domains) :
                          EntryMatches(domains[i], domains[j].Name)
         IN  deduplicateFrom(domains, i + 1,
                             IF add THEN Append(newlist, domains[i]) ELSE newlist)

\* faulty variant of deduplicate: an entry is compared with every other entry
deduplicateBoth(domains) ==
    LET keep == {i \in 1..Len(domains) :
                    ~ \E j \in 1..Len(domains) :
                          j # i /\ EntryMatches(domains[i], domains[j].Name)}
        Nth(k) == CHOOSE i \in keep : Cardinality({m \in keep : m <= i}) = k
    IN  [k \in 1..Cardinality(keep) |-> domains[Nth(k)]]

\* faulty variant of deduplicate: an entry is compared with the next entry only
deduplicateNext(domains) ==
    LET keep == {i \in 1..Len(domains) :
                    ~ (i < Len(domains)
                         /\ EntryMatches(domains[i], domains[i + 1].Name))}
        Nth(k) == CHOOSE i \in keep : Cardinality({m \in keep : m <= i}) = k
    IN  [k \in 1..Cardinality(keep) |-> domains[Nth(k)]]

deduplicate(domains) == deduplicateFrom(domains, 1, <<>>)

(***************************************************************************)
(* Inputs: configurations, client byte streams, upstream byte streams.     *)
(***************************************************************************)
IPv4Addrs == {<<198, 51, 100, 9>>, <<127, 0, 0, 1>>}
IPv6Addr  == <<32, 1, 13, 184>> \o Repeat(0, 11) \o <<1>>

\* domain names over 'B' and 'a', up to MaxDomainLen bytes
DomainNames == UNION {[1..l -> {66, 97}] : l \in 0..MaxDomainLen}

\* the blacklist: one entry "ba"
Blacklist == <<[Name |-> <<98, 97>>, Hits |-> 0]>>

\* ATYP + address in wire form
AddrRecords ==
    {<<1>> \o a : a \in IPv4Addrs}
    \cup {<<3, Len(d)>> \o d : d \in DomainNames}
    \cup {<<4>> \o IPv6Addr}

ClientGreetings == {<<5, m>> \o Repeat(0, m) : m \in 1..MaxNMethods}

\* well-formed CONNECT requests: VER CMD RSV ATYP ADDR PORT
WellFormedRequests ==
    {<<5, 1, 0>> \o ar \o <<1, 187>> : ar \in AddrRecords}
    \cup {<<5, 1, 9, 1, 198, 51, 100, 9, 0, 80>>}

\* requests that break the state table
MalformedRequests ==
    { <<4, 1, 0, 1, 127, 0, 0, 1, 0, 80>>,
      <<5, 2, 0, 1, 127, 0, 0, 1, 0, 80>>,
      <<5, 1, 0, 7, 1, 127, 0, 0, 1, 0, 80>> }

ClientStreams ==
    {<<5, 1, 0>> \o r \o <<42>> : r \in WellFormedRequests \cup MalformedRequests}
    \cup {g \o <<5, 1, 0, 1, 127, 0, 0, 1, 1, 187>> : g \in ClientGreetings}
    \cup {<<5, 0, 5, 1, 0, 1, 127, 0, 0, 1, 1, 187>>,
          <<4, 1, 0, 5, 1, 0, 1, 127, 0, 0, 1, 1, 187>>}

\* socks5.ProxyInfo values
NoAuthProxy   == [Host |-> <<117>>, Port |-> 1080, UseTLS |-> FALSE,
                  Username |-> <<>>, Password |-> <<>>]
UserPassProxy == [Host |-> <<118>>, Port |-> 1081, UseTLS |-> TRUE,
                  Username |-> <<97>>, Password |-> <<98>>]
OversizedProxy == [Host |-> <<119>>, Port |-> 1082, UseTLS |-> FALSE,
                   Username |-> Repeat(97, 256), Password |-> <<>>]
\* a password one byte over the limit, and a username exactly at the limit
LongPasswordProxy == [Host |-> <<120>>, Port |-> 1083, UseTLS |-> FALSE,
                      Username |-> <<97>>, Password |-> Repeat(98, 256)]
LimitProxy    == [Host |-> <<121>>, Port |-> 1084, UseTLS |-> FALSE,
                  Username |-> Repeat(97, 255), Password |-> <<98>>]
ZeroProxy     == [Host |-> <<>>, Port |-> 0, UseTLS |-> FALSE,
                  Username |-> <<>>, Password |-> <<>>]

Pools == {<<>>, <<NoAuthProxy>>, <<UserPassProxy>>,
          <<NoAuthProxy, UserPassProxy>>, <<OversizedProxy>>,
          <<LongPasswordProxy>>, <<LimitProxy>>}

\* ReportIP as net.IP: 4 bytes, 16 bytes IPv4-mapped, 16 bytes IPv6
ReportIPs == {<<203, 0, 113, 7>>,
              Repeat(0, 10) \o <<255, 255, 203, 0, 113, 7>>,
              IPv6Addr}

Configs ==
    {[Proxies |-> <<>>, ReportIP |-> ip] : ip \in ReportIPs}
    \cup {[Proxies |-> p, ReportIP |-> <<203, 0, 113, 7>>] : p \in Pools \ {<<>>}}

LocalPorts == {40000, 1025}

\* CONNECT replies of an upstream from RSV on: RSV ATYP ADDR PORT
ReplyRecords ==
    { <<0, 1, 198, 51, 100, 9, 1, 187>>,
      <<9, 1, 127, 0, 0, 1, 0, 80>>,
      <<0, 4>> \o IPv6Addr \o <<1, 187>>,
      <<0, 7, 1, 127, 0, 0, 1, 0, 80>> }
    \cup {<<0, 3, l>> \o Repeat(97, l) \o <<1, 187>> : l \in 0..MaxDomainLen}

\* what an upstream sends: method selection, sub-negotiation reply (or none),
\* CONNECT reply, then tunnel data; and streams that fail at each step
UpstreamStreams ==
    {pre \o <<5, 0>> \o rec \o <<42>> :
        pre \in {<<5, 2, 1, 0>>, <<5, 0>>, <<5, 0, 1, 0>>}, rec \in ReplyRecords}
    \cup { <<4, 0>>, <<5, 255>>, <<5, 2, 2, 0>>, <<5, 2, 1, 1>>, <<5, 2, 1, 7>>,
           <<5, 2, 1, 0, 4, 0>>, <<5, 2, 1, 0, 5, 1, 0, 1, 0, 0, 0, 0, 0, 0>>,
           <<5, 2, 1, 0, 5, 2, 0, 1, 0, 0, 0, 0, 0, 0>>,
           <<5, 0, 1, 0, 5, 1, 0, 1, 0, 0, 0, 0, 0, 0>> }


(***************************************************************************)
(* Inputs of the blacklist: list texts, the JSON file, host strings.       *)
(***************************************************************************)
\* LF, CR, space, '#', 'B', 'a'
TextBytes == {10, 13, 32, 35, 66, 97}

\* "a\nba\n", "ba\na\n", "# c\r\n1 Ba\r\nb", "a\n \nb\n"
SampleTexts ==
    { <<97, 10, 98, 97, 10>>,
      <<98, 97, 10, 97, 10>>,
      <<35, 32, 99, 13, 10, 49, 32, 66, 97, 13, 10, 98>>,
      <<97, 10, 32, 10, 98, 10>> }

\* the content of a list file or the body of an HTTP response
Texts == UNION {[1..l -> TextBytes] : l \in 0..MaxTextLen} \cup SampleTexts

\* "", "a", "b", "ba"
EntryNames == {<<>>, <<97>>, <<98>>, <<98, 97>>}

\* a.com, sub.a.com, b.com
ExampleEntries ==
    << [Name |-> <<97, 46, 99, 111, 109>>, Hits |-> 0],
       [Name |-> <<115, 117, 98, 46, 97, 46, 99, 111, 109>>, Hits |-> 0],
       [Name |-> <<98, 46, 99, 111, 109>>, Hits |-> 0] >>

\* a saved blacklist with counters
CountedEntries ==
    << [Name |-> <<98, 97>>, Hits |-> 3], [Name |-> <<97>>, Hits |-> 1] >>

FileEntryLists ==
    UNION {[1..l -> {[Name |-> nm, Hits |-> 0] : nm \in EntryNames}] :
              l \in 0..MaxEntries}
    \cup {ExampleEntries, CountedEntries}

\* the JSON blacklist file: an array of entries; or text that is not JSON;
\* or an array whose last "hits" is not a number ("type": json.Unmarshal
\* reports the error after it has stored what it decoded, that field as 0)
Files ==
    {[json |-> "ok", entries |-> l] : l \in FileEntryLists}
    \cup {[json |-> "syntax", entries |-> <<>>],
          [json |-> "type", entries |-> <<[Name |-> <<98, 97>>, Hits |-> 0],
                                          [Name |-> <<97>>, Hits |-> 0]>>]}

\* the file at "blacklist.json" and the list text; "missing.json" does not exist
Paths == {"blacklist.json", "missing.json"}

Environments ==
    {[file |-> f, text |-> <<97, 10>>] : f \in Files}
    \cup {[file |-> [json |-> "ok", entries |-> Blacklist], text |-> t] :
             t \in Texts}

\* host strings over 'B' and 'a'; and "xb.com"
Hosts ==
    UNION {[1..l -> {66, 97}] : l \in 0..MaxHostLen}
    \cup {<<120, 98, 46, 99, 111, 109>>}

(***************************************************************************)
(* State.                                                                  *)
(***************************************************************************)
VARIABLES
    Proxies,        \* Ctx.Proxies.Hosts
    ReportIP,       \* Ctx.ReportIP
    Domains,        \* Ctx.DomainFilter.Domains
    clientStream,   \* the bytes the client sends, in order
    clientRead,     \* how many of them Client.Reader.ReadByte has returned
    pc,             \* position of the session task
    state,          \* local of processInbound / processOutbound
    store,          \* local of processInbound / processOutbound
    err,            \* the error value of the running function ("nil" if none)
    RequestData,    \* ClientCtx.RequestData
    RemoteHost,     \* ClientCtx.Remote.Host
    RemotePort,     \* ClientCtx.Remote.Port
    clientOut,      \* the bytes written to Client.Writer, in order
    Proxy,          \* ClientCtx.Proxy
    authType,       \* local of processOutbound
    dials,          \* the dials made, in order: [Host, Port, TLS]
    remoteOpened,   \* Remote.Connection was opened by a successful dial
    remoteCloses,   \* number of calls of Remote.Connection.Close
    clientCloses,   \* number of calls of Client.Connection.Close
    deferred,       \* the deferred calls of processClient, in order of defer
    upstreamStream, \* the bytes the upstream proxy sends, in order
    upstreamRead,   \* how many of them Remote.Reader.ReadByte has returned
    upstreamOut,    \* the bytes written to Remote.Writer, in order
    response,       \* local of processOutbound
    proxyport,      \* local of processOutbound: the local port of the dial
    copy,           \* per source connection: position of the CopyData task
    ReadCount,      \* Connection.ReadCount of Client and of Remote
    n,              \* per source: bytes moved by the io.Copy call in progress
    transferred,    \* per source: bytes moved to the other side in total
    srcEnd,         \* per source: "open", or how its stream ended
    logged,         \* the messages sent to Ctx.Logger, in order
    FileName,       \* Ctx.DomainFilter.FileName
    jsonFile,       \* the content of the file at "blacklist.json"
    listText,       \* the content of the list file / the HTTP response body
    call,           \* the last Filter operation called ("none" before any)
    arg,            \* its argument
    ret,            \* what it returned (empty: it did not return)
    before,         \* the Filter when it was called
    appended,       \* Domains when it called deduplicate
    accepted,       \* how many connections listener.Accept has returned
    connection,     \* local of Listen: the connection to send (0: none)
    listenPc,       \* position of Listen: "accept", "send", "returned"
    ClientConnections, \* Ctx.ClientConnections: the connections in the channel
    closed,         \* close(ctx.ClientConnections) was called
    handlePc,       \* position of HandleClients: "receive", "returned"
    started,        \* the connections for which `go processClient()` ran
    dropped,        \* the connection HandleClients returned on (0: none)
    ended           \* how many processClient tasks have returned

vars == <<Proxies, ReportIP, Domains, clientStream, clientRead, pc, state,
          store, err, RequestData, RemoteHost, RemotePort, clientOut, Proxy,
          authType, dials, remoteOpened, remoteCloses, clientCloses, deferred,
          upstreamStream, upstreamRead, upstreamOut, response,
          proxyport, copy, ReadCount, n, transferred, srcEnd, logged,
          FileName, jsonFile, listText, call, arg, ret, before, appended,
          accepted, connection, listenPc, ClientConnections, closed, handlePc,
          started, dropped, ended>>

filterVars == <<FileName, jsonFile, listText, call, arg, ret, before, appended>>
acceptVars == <<accepted, connection, listenPc, ClientConnections, closed,
                handlePc, started, dropped, ended>>
cfgVars    == <<Proxies, ReportIP, Domains, clientStream, filterVars, acceptVars>>
parseVars  == <<RequestData, RemoteHost, RemotePort>>
remoteVars == <<Proxy, authType, dials, remoteOpened, upstreamStream,
                upstreamRead, upstreamOut, response, proxyport>>
spliceVars == <<copy, ReadCount, n, transferred, srcEnd>>

Conns == {"Client", "Remote"}

\* Listen and HandleClients before the first Accept
AcceptorIdle ==
    /\ accepted = 0
    /\ connection = 0
    /\ listenPc = "accept"
    /\ ClientConnections = <<>>
    /\ closed = FALSE
    /\ handlePc = "receive"
    /\ started = {}
    /\ dropped = 0
    /\ ended = 0

\* the ClientCtx built by Listen for an accepted connection, queued on
\* ClientConnections
Init ==
    /\ \E c \in Configs : Proxies = c.Proxies /\ ReportIP = c.ReportIP
    /\ Domains = Blacklist
    /\ clientStream \in ClientStreams
    /\ clientRead = 0
    /\ pc = "queued"
    /\ state = 0
    /\ store = 0
    /\ err = "nil"
    /\ RequestData = <<>>
    /\ RemoteHost = <<>>
    /\ RemotePort = 0
    /\ clientOut = <<>>
    /\ Proxy = ZeroProxy
    /\ authType = 0
    /\ dials = <<>>
    /\ remoteOpened = FALSE
    /\ remoteCloses = 0
    /\ clientCloses = 0
    /\ deferred = <<>>
    /\ upstreamStream = <<>>
    /\ upstreamRead = 0
    /\ upstreamOut = <<>>
    /\ response = <<>>
    /\ proxyport = 0
    /\ copy = [c \in Conns |-> "idle"]
    /\ ReadCount = [c \in Conns |-> 0]
    /\ n = [c \in Conns |-> 0]
    /\ transferred = [c \in Conns |-> 0]
    /\ srcEnd = [c \in Conns |-> "open"]
    /\ logged = <<>>
    /\ FileName = "blacklist.json"
    /\ jsonFile = [json |-> "ok", entries |-> Blacklist]
    /\ listText = <<>>
    /\ call = "none"
    /\ arg = <<>>
    /\ ret = <<>>
    /\ before = [Domains |-> <<>>, FileName |-> ""]
    /\ appended = <<>>
    /\ AcceptorIdle

(***************************************************************************)
(* HandleClients: take the ClientCtx from the channel, record the client's *)
(* address and start processClient, which defers Client.Connection.Close   *)
(* and enters processInbound.                                              *)
(***************************************************************************)
HandleClients ==
    /\ pc = "queued"
    /\ pc' = "inbound"
    /\ deferred' = <<"Client">>
    /\ UNCHANGED <<cfgVars, clientRead, state, store, err, parseVars, clientOut, remoteVars,
                   remoteCloses, clientCloses, spliceVars, logged>>

(***************************************************************************)
(* processInbound: one iteration of the loop, for the byte read.           *)
(* The result names the new locals and fields; reply says that case 3      *)
(* (write 05 00 and flush) runs in this iteration.                         *)
(***************************************************************************)
InboundCase(st, sto, data, rd, host, port) ==
    LET R(s, t, e) == [state |-> s, store |-> t, err |-> e, RequestData |-> rd,
                       Host |-> host, Port |-> port, reply |-> FALSE]
    IN
    CASE st = 0 -> IF data = 5 THEN R(1, sto, "nil")
                   ELSE R(13, sto, "invalid data(0)")
      [] st = 1 -> IF data > 0 THEN R(2, data, "nil")
                   ELSE R(13, sto, "invalid data(1)")
      [] st = 2 -> IF sto - 1 > 0 THEN R(2, sto - 1, "nil")
                   ELSE [R(3, sto - 1, "nil") EXCEPT !.reply = TRUE]
      [] st = 4 -> IF data = 5 THEN R(5, sto, "nil")
                   ELSE R(13, sto, "invalid data(4)")
      [] st = 5 -> IF data = 1 THEN R(6, sto, "nil")
                   ELSE R(13, sto, "invalid data(5)")
      [] st = 6 -> [R(7, sto, "nil") EXCEPT !.RequestData = Append(rd, data)]
      [] st = 7 ->
            [R(CASE data = 1 -> 8 [] data = 3 -> 9 [] data = 4 -> 11
                 [] OTHER -> 7,
               CASE data = 1 -> 4 [] data = 3 -> 0 [] data = 4 -> 16
                 [] OTHER -> sto,
               "nil")
             EXCEPT !.RequestData = Append(rd, data)]
      [] st = 8 ->
            [R(IF sto - 1 = 0 THEN 12 ELSE 8,
               IF sto - 1 = 0 THEN 2 ELSE sto - 1, "nil")
             EXCEPT !.RequestData = Append(rd, data),
                    !.Host = host \o Itoa(data)
                             \o (IF sto - 1 = 0 THEN <<>> ELSE <<46>>)]
      [] st = 9 -> [R(10, data, "nil") EXCEPT !.RequestData = Append(rd, data)]
      [] st = 10 ->
            [R(IF sto - 1 = 0 THEN 12 ELSE 10,
               IF sto - 1 = 0 THEN 2 ELSE sto - 1, "nil")
             EXCEPT !.RequestData = Append(rd, data),
                    !.Host = Append(host, data)]
      [] st = 11 ->
            [R(IF sto - 1 = 0 THEN 12 ELSE 11,
               IF sto - 1 = 0 THEN 2 ELSE sto - 1, "nil")
             EXCEPT !.RequestData = Append(rd, data),
                    !.Host = host \o EncodeToString(data)
                             \o (IF sto - 1 > 0 /\ (sto - 1) % 2 = 0
                                 THEN <<58>> ELSE <<>>)]
      [] st = 12 ->
            [R(IF sto - 1 = 0 THEN 13 ELSE 12, sto - 1, "nil")
             EXCEPT !.Port = port * 256 + data]

\* One pass of `for state < 13`: ReadByte, then the switch.  A read can fail
\* at any point (and does when the client has no more bytes).
ProcessInbound ==
    /\ pc = "inbound"
    /\ \/ /\ err' = "read"
          /\ pc' = "parsed"
          /\ UNCHANGED <<clientRead, state, store, parseVars, clientOut>>
       \/ /\ clientRead < Len(clientStream)
          /\ LET r == InboundCase(state, store, clientStream[clientRead + 1],
                                  RequestData, RemoteHost, RemotePort)
             IN  /\ clientRead' = clientRead + 1
                 /\ store' = r.store
                 /\ RequestData' = r.RequestData
                 /\ RemoteHost' = r.Host
                 /\ RemotePort' = r.Port
                 /\ IF r.reply
                    THEN /\ clientOut' = clientOut \o <<5, 0>>
                         /\ \E flushed \in BOOLEAN :
                              /\ state' = IF flushed THEN 4 ELSE 13
                              /\ err' = IF flushed THEN "nil" ELSE "flush"
                              /\ pc' = IF flushed THEN "inbound" ELSE "parsed"
                    ELSE /\ clientOut' = clientOut
                         /\ state' = r.state
                         /\ err' = r.err
                         /\ pc' = IF r.state < 13 THEN "inbound" ELSE "parsed"
    /\ UNCHANGED <<cfgVars, remoteVars, remoteCloses, clientCloses, deferred,
                   spliceVars, logged>>


(***************************************************************************)
(* processClient after processInbound: the error return and the blacklist  *)
(* lookup; otherwise processOutbound is entered (its locals are reset).    *)
(***************************************************************************)
\* faulty variant of ProcessClientFilter: the blacklist is not consulted
ProcessClientFilterSkip ==
    /\ pc = "parsed"
    /\ IF err # "nil"
       THEN /\ logged' = Append(logged, "Invalid request")
            /\ pc' = "return"
            /\ UNCHANGED <<state, store>>
       ELSE /\ logged' = logged
            /\ pc' = "outbound"
            /\ state' = 0
            /\ store' = 0
    /\ UNCHANGED <<cfgVars, clientRead, err, parseVars, clientOut, remoteVars,
                   remoteCloses, clientCloses, deferred, spliceVars>>

ProcessClientFilter ==
    /\ pc = "parsed"
    /\ IF err # "nil"
       THEN /\ logged' = Append(logged, "Invalid request")
            /\ pc' = "return"
            /\ UNCHANGED <<state, store>>
       ELSE IF FilterMatches(Domains, RemoteHost)
       THEN /\ logged' = Append(logged, "Blacklisted")
            /\ pc' = "return"
            /\ UNCHANGED <<state, store>>
       ELSE /\ logged' = logged
            /\ pc' = "outbound"
            /\ state' = 0
            /\ store' = 0
    /\ Domains' = IF err = "nil" THEN MatchesDomains(Domains, RemoteHost)
                   ELSE Domains
    /\ UNCHANGED <<Proxies, ReportIP, clientStream, filterVars, acceptVars,
                   clientRead, err,
                   parseVars, clientOut, remoteVars, remoteCloses, clientCloses,
                   deferred, spliceVars>>

(***************************************************************************)
(* The replies and requests processOutbound writes.                        *)
(***************************************************************************)
\* general failure: 05 01, RequestData, 00 00
\* faulty variant of FailureReply: the byte the upstream failed with is
\* passed on as the reply code
FailureReplyLeak(rd) ==
    <<5, IF upstreamRead < Len(upstreamStream)
         THEN upstreamStream[upstreamRead + 1] ELSE 1>> \o rd \o <<0, 0>>

FailureReply(rd) == <<5, 1>> \o rd \o <<0, 0>>

\* net.IP.To4: the 4-byte form of an IPv4 address, <<>> (nil) otherwise
To4(ip) ==
    IF Len(ip) = 4 THEN ip
    ELSE IF /\ Len(ip) = 16
            /\ \A i \in 1..10 : ip[i] = 0
            /\ ip[11] = 255
            /\ ip[12] = 255
         THEN SubSeq(ip, 13, 16)
    ELSE <<>>

\* faulty variant of DirectReply: the address type follows len(ReportIP)
\* instead of To4
DirectReplyRaw(ip, port) ==
    <<5, 0, 0>> \o (IF Len(ip) = 4 THEN <<1>> ELSE <<4>>) \o ip
    \o PortBytes(port)

\* direct mode success: 05 00 00, the ReportIP record, the local port
DirectReply(ip, port) ==
    <<5, 0, 0>>
    \o (IF To4(ip) # <<>> THEN <<1>> \o To4(ip) ELSE <<4>> \o ip)
    \o PortBytes(port)

\* the greeting sent to the upstream
Greeting(auth) == <<5, 1, auth>>

\* the username/password sub-negotiation message (case 2)
UserPassRequest(username, password) ==
    <<1, Len(username) % 256>> \o username \o <<Len(password) % 256>> \o password

\* faulty variant of ConnectRequest: the port bytes are swapped
ConnectRequestWithPort(rd, port) ==
    <<5, 1>> \o rd \o <<port % 256, (port \div 256) % 256>>

\* the CONNECT sent to the upstream (case 5)
ConnectRequest(rd, port) == <<5, 1>> \o rd \o PortBytes(port)

\* faulty variant of SuccessReply: the failure reply follows the success reply
SuccessReplyThenFailure(resp) ==
    <<5, 0>> \o resp \o <<5, 1>> \o RequestData \o <<0, 0>>

\* relayed success: 05 00, then the captured response
SuccessReply(resp) == <<5, 0>> \o resp


(***************************************************************************)
(* processOutbound, direct mode (no proxy list): dial the destination and  *)
(* reply.  On failure processClient returns.                               *)
(***************************************************************************)
\* faulty variant of ProcessOutboundDirect: a failed dial is tried once more
ProcessOutboundDirectRetry ==
    /\ pc = "outbound"
    /\ Len(Proxies) = 0
    /\ \/ /\ dials' = Append(dials, [Host |-> RemoteHost, Port |-> RemotePort,
                                     TLS |-> FALSE])
          /\ proxyport' \in LocalPorts
          /\ remoteOpened' = TRUE
          /\ clientOut' = clientOut \o DirectReply(ReportIP, proxyport')
          /\ err' = "nil"
          /\ logged' = logged
          /\ pc' = "opened"
       \/ /\ dials' = dials \o <<[Host |-> RemoteHost, Port |-> RemotePort,
                                   TLS |-> FALSE],
                                  [Host |-> RemoteHost, Port |-> RemotePort,
                                   TLS |-> FALSE]>>
          /\ remoteOpened' = FALSE
          /\ proxyport' = proxyport
          /\ clientOut' = clientOut \o FailureReply(RequestData)
          /\ err' = "dial"
          /\ logged' = Append(logged, "Error")
          /\ pc' = "return"
    /\ UNCHANGED <<cfgVars, clientRead, state, store, parseVars, Proxy,
                   authType, upstreamStream, upstreamRead, upstreamOut,
                   response, remoteCloses, clientCloses, deferred, spliceVars>>

ProcessOutboundDirect ==
    /\ pc = "outbound"
    /\ Len(Proxies) = 0
    /\ dials' = Append(dials, [Host |-> RemoteHost, Port |-> RemotePort,
                               TLS |-> FALSE])
    /\ \/ /\ proxyport' \in LocalPorts
          /\ remoteOpened' = TRUE
          /\ clientOut' = clientOut \o DirectReply(ReportIP, proxyport')
          /\ err' = "nil"
          /\ logged' = logged
          /\ pc' = "opened"
       \/ /\ remoteOpened' = FALSE
          /\ proxyport' = proxyport
          /\ clientOut' = clientOut \o FailureReply(RequestData)
          /\ err' = "dial"
          /\ logged' = Append(logged, "Error")
          /\ pc' = "return"
    /\ UNCHANGED <<cfgVars, clientRead, state, store, parseVars, Proxy,
                   authType, upstreamStream, upstreamRead, upstreamOut,
                   response, remoteCloses, clientCloses, deferred, spliceVars>>

(***************************************************************************)
(* processOutbound, relayed mode up to the state machine: select a proxy,  *)
(* reject oversized credentials, dial, send the greeting.                  *)
(* logError(err) with a nil err (the oversized branch) dereferences nil:   *)
(* the task panics, its deferred calls run and the process exits.          *)
(***************************************************************************)
AuthType(proxy) ==
    IF Len(proxy.Username) > 0 \/ Len(proxy.Password) > 0 THEN 2 ELSE 0

ProcessOutboundRelay ==
    /\ pc = "outbound"
    /\ Len(Proxies) > 0
    /\ \E i \in 1..Len(Proxies) :
        LET proxy == Proxies[i] IN
        /\ Proxy' = proxy
        /\ IF Len(proxy.Username) > 255 \/ Len(proxy.Password) > 255
           THEN /\ clientOut' = clientOut \o FailureReply(RequestData)
                /\ err' = "panic"
                /\ pc' = "return"
                /\ UNCHANGED <<dials, remoteOpened, authType, upstreamOut,
                               upstreamStream, remoteCloses, logged>>
           ELSE
             /\ dials' = Append(dials, [Host |-> proxy.Host, Port |-> proxy.Port,
                                        TLS |-> proxy.UseTLS])
             /\ \/ \* the dial fails
                   /\ clientOut' = clientOut \o FailureReply(RequestData)
                   /\ err' = "dial"
                   /\ logged' = Append(logged, "Error")
                   /\ pc' = "return"
                   /\ UNCHANGED <<remoteOpened, authType, upstreamOut,
                                  upstreamStream, remoteCloses>>
                \/ \* the dial succeeds, the greeting is written; Flush fails
                   /\ remoteOpened' = TRUE
                   /\ authType' = AuthType(proxy)
                   /\ upstreamOut' = upstreamOut \o Greeting(AuthType(proxy))
                   /\ clientOut' = clientOut \o FailureReply(RequestData)
                   /\ err' = "flush"
                   /\ logged' = Append(logged, "Error")
                   /\ remoteCloses' = remoteCloses + 1
                   /\ pc' = "return"
                   /\ UNCHANGED upstreamStream
                \/ \* the greeting is sent: the state machine starts
                   /\ remoteOpened' = TRUE
                   /\ authType' = AuthType(proxy)
                   /\ upstreamOut' = upstreamOut \o Greeting(AuthType(proxy))
                   /\ upstreamStream' \in UpstreamStreams
                   /\ err' = "nil"
                   /\ pc' = "upstream"
                   /\ UNCHANGED <<clientOut, remoteCloses, logged>>
    /\ UNCHANGED <<cfgVars, clientRead, state, store, parseVars, upstreamRead,
                   response, proxyport, clientCloses, deferred, spliceVars>>

(***************************************************************************)
(* processOutbound, the upstream state machine: the switch for one byte.   *)
(* send names the message cases 2 and 5 write in this iteration (case 1    *)
(* falls through to case 2, case 4 to case 5).                             *)
(***************************************************************************)
OutboundCase(st, sto, data, resp, auth) ==
    LET R(s, t, e) == [state |-> s, store |-> t, err |-> e, response |-> resp,
                       send |-> "none"]
        A(s, t) == [state |-> s, store |-> t, err |-> "nil",
                    response |-> Append(resp, data), send |-> "none"]
    IN
    CASE st = 0 -> IF data = 5 THEN R(1, sto, "nil")
                   ELSE R(15, sto, "invalid data(0)")
      [] st = 1 -> IF data = auth
                   THEN [R(3, sto, "nil") EXCEPT !.send = "userpass"]
                   ELSE R(15, sto, "authentication method not supported")
      [] st = 3 -> IF data = 1 THEN R(4, sto, "nil")
                   ELSE R(15, sto, "invalid data(3)")
      [] st = 4 -> IF data = 0 THEN [R(6, sto, "nil") EXCEPT !.send = "connect"]
                   ELSE R(15, sto, "authentication failed")
      [] st = 6 -> IF data = 5 THEN R(7, sto, "nil")
                   ELSE R(15, sto, "invalid data(6)")
      [] st = 7 -> IF data = 0 THEN R(8, sto, "nil")
                   ELSE R(15, sto, "command failed")
      [] st = 8 -> A(9, sto)
      [] st = 9 -> A(CASE data = 1 -> 10 [] data = 3 -> 11 [] data = 4 -> 13
                       [] OTHER -> 9,
                     CASE data = 1 -> 4 [] data = 3 -> 0 [] data = 4 -> 16
                       [] OTHER -> sto)
      [] st = 11 -> A(12, data)
      [] st \in {10, 12, 13} -> A(IF sto - 1 = 0 THEN 14 ELSE st,
                                  IF sto - 1 = 0 THEN 2 ELSE sto - 1)
      [] st = 14 -> A(IF sto - 1 = 0 THEN 15 ELSE 14, sto - 1)


\* One pass of `for state < 15`: ReadByte, then the switch; when the loop
\* ends, the reply to the client (success, or failure and Close).
ProcessOutboundUpstream ==
    /\ pc = "upstream"
    /\ \/ \* ReadByte fails: logError, break, then the failure reply
          /\ err' = "read"
          /\ clientOut' = clientOut \o FailureReply(RequestData)
          /\ logged' = logged \o <<"Error", "Error">>
          /\ remoteCloses' = remoteCloses + 1
          /\ pc' = "return"
          /\ UNCHANGED <<upstreamRead, state, store, response, upstreamOut>>
       \/ /\ upstreamRead < Len(upstreamStream)
          /\ LET r == OutboundCase(state, store, upstreamStream[upstreamRead + 1],
                                   response, authType)
                 msg == CASE r.send = "userpass" ->
                               UserPassRequest(Proxy.Username, Proxy.Password)
                          [] r.send = "connect" ->
                               ConnectRequest(RequestData, RemotePort)
                          [] OTHER -> <<>>
             IN  /\ upstreamRead' = upstreamRead + 1
                 /\ store' = r.store
                 /\ response' = r.response
                 /\ upstreamOut' = upstreamOut \o msg
                 /\ \E flushed \in (IF r.send = "none" THEN {TRUE} ELSE BOOLEAN) :
                      /\ state' = IF flushed THEN r.state ELSE 15
                      /\ err' = IF flushed THEN r.err ELSE "flush"
                      /\ IF err' # "nil"
                         THEN /\ clientOut' = clientOut \o FailureReply(RequestData)
                              /\ logged' = Append(logged, "Error")
                              /\ remoteCloses' = remoteCloses + 1
                              /\ pc' = "return"
                         ELSE IF state' >= 15
                         THEN /\ clientOut' = clientOut \o SuccessReply(r.response)
                              /\ pc' = "opened"
                              /\ UNCHANGED <<logged, remoteCloses>>
                         ELSE /\ pc' = "upstream"
                              /\ UNCHANGED <<clientOut, logged, remoteCloses>>
    /\ UNCHANGED <<cfgVars, clientRead, parseVars, Proxy, authType, dials,
                   remoteOpened, upstreamStream, proxyport, clientCloses,
                   deferred, spliceVars>>

(***************************************************************************)
(* processClient after a successful processOutbound: defer the Close of    *)
(* the remote, log, start the two CopyData tasks (wait.Add(2)).            *)
(***************************************************************************)
\* faulty variant of ProcessClientSplice: the Close of the remote is not
\* deferred
ProcessClientSpliceNoDefer ==
    /\ pc = "opened"
    /\ deferred' = deferred
    /\ logged' = Append(logged, "Opened")
    /\ copy' = [c \in Conns |-> "copying"]
    /\ pc' = "wait"
    /\ UNCHANGED <<cfgVars, clientRead, state, store, err, parseVars, clientOut,
                   remoteVars, remoteCloses, clientCloses, ReadCount, n,
                   transferred, srcEnd>>

ProcessClientSplice ==
    /\ pc = "opened"
    /\ deferred' = Append(deferred, "Remote")
    /\ logged' = Append(logged, "Opened")
    /\ copy' = [c \in Conns |-> "copying"]
    /\ pc' = "wait"
    /\ UNCHANGED <<cfgVars, clientRead, state, store, err, parseVars, clientOut,
                   remoteVars, remoteCloses, clientCloses, ReadCount, n,
                   transferred, srcEnd>>

(***************************************************************************)
(* The peers of the splice.  src names the connection a CopyData task      *)
(* reads from (its `other`): src = "Remote" is Client.CopyData(&Remote).   *)
(***************************************************************************)
\* the peer of src sends a byte and the running io.Copy moves it across
PeerSend(src) ==
    /\ pc = "wait"
    /\ copy[src] = "copying"
    /\ srcEnd[src] = "open"
    /\ transferred[src] < MaxBytes
    /\ n' = [n EXCEPT ![src] = @ + 1]
    /\ transferred' = [transferred EXCEPT ![src] = @ + 1]
    /\ UNCHANGED <<cfgVars, clientRead, pc, state, store, err, parseVars,
                   clientOut, remoteVars, remoteCloses, clientCloses, deferred,
                   copy, ReadCount, srcEnd, logged>>

\* the stream read from src ends: EOF, or an error of the read or the write
PeerEnd(src) ==
    /\ pc = "wait"
    /\ srcEnd[src] = "open"
    /\ \E how \in {"eof", "error"} : srcEnd' = [srcEnd EXCEPT ![src] = how]
    /\ UNCHANGED <<cfgVars, clientRead, pc, state, store, err, parseVars,
                   clientOut, remoteVars, remoteCloses, clientCloses, deferred,
                   copy, ReadCount, n, transferred, logged>>

(***************************************************************************)
(* Connection.CopyData: io.Copy returns (n, err) once the stream has       *)
(* ended; one pass of the loop.  A later io.Copy on the ended stream       *)
(* returns (0, nil).                                                       *)
(***************************************************************************)
\* faulty variant of CopyData: the loop ends on n < 0 instead of n <= 0
CopyDataSpin(src) ==
    /\ pc = "wait"
    /\ copy[src] = "copying"
    /\ srcEnd[src] # "open"
    /\ IF srcEnd[src] = "error" \/ n[src] < 0
       THEN /\ copy' = [copy EXCEPT ![src] = "returned"]
            /\ UNCHANGED <<ReadCount, n>>
       ELSE /\ ReadCount' = [ReadCount EXCEPT ![src] = @ + n[src]]
            /\ n' = [n EXCEPT ![src] = 0]
            /\ copy' = copy
    /\ UNCHANGED <<cfgVars, clientRead, pc, state, store, err, parseVars,
                   clientOut, remoteVars, remoteCloses, clientCloses, deferred,
                   transferred, srcEnd, logged>>

CopyData(src) ==
    /\ pc = "wait"
    /\ copy[src] = "copying"
    /\ srcEnd[src] # "open"
    /\ IF srcEnd[src] = "error" \/ n[src] <= 0
       THEN /\ copy' = [copy EXCEPT ![src] = "returned"]
            /\ UNCHANGED <<ReadCount, n>>
       ELSE /\ ReadCount' = [ReadCount EXCEPT ![src] = @ + n[src]]
            /\ n' = [n EXCEPT ![src] = 0]
            /\ copy' = copy
    /\ UNCHANGED <<cfgVars, clientRead, pc, state, store, err, parseVars,
                   clientOut, remoteVars, remoteCloses, clientCloses, deferred,
                   transferred, srcEnd, logged>>

(***************************************************************************)
(* processClient after wait.Wait(): the close message.                     *)
(***************************************************************************)
\* faulty variant of ProcessClientClose: the wait ends with the first task
\* that returns
ProcessClientCloseFirst ==
    /\ pc = "wait"
    /\ \E c \in Conns : copy[c] = "returned"
    /\ logged' = Append(logged, "Closed")
    /\ pc' = "return"
    /\ UNCHANGED <<cfgVars, clientRead, state, store, err, parseVars, clientOut,
                   remoteVars, remoteCloses, clientCloses, deferred, spliceVars>>

ProcessClientClose ==
    /\ pc = "wait"
    /\ \A c \in Conns : copy[c] = "returned"
    /\ logged' = Append(logged, "Closed")
    /\ pc' = "return"
    /\ UNCHANGED <<cfgVars, clientRead, state, store, err, parseVars, clientOut,
                   remoteVars, remoteCloses, clientCloses, deferred, spliceVars>>

(***************************************************************************)
(* processClient returns (or panics): its deferred calls run.              *)
(***************************************************************************)
Count(seq, x) == Cardinality({i \in 1..Len(seq) : seq[i] = x})

ProcessClientReturn ==
    /\ pc = "return"
    /\ clientCloses' = clientCloses + Count(deferred, "Client")
    /\ remoteCloses' = remoteCloses + Count(deferred, "Remote")
    /\ deferred' = <<>>
    /\ pc' = IF err = "panic" THEN "crashed" ELSE "done"
    /\ UNCHANGED <<cfgVars, clientRead, state, store, err, parseVars, clientOut,
                   remoteVars, spliceVars, logged>>

Next ==
    \/ HandleClients
    \/ ProcessInbound
    \/ ProcessClientFilter
    \/ ProcessOutboundDirect
    \/ ProcessOutboundRelay
    \/ ProcessOutboundUpstream
    \/ ProcessClientSplice
    \/ \E src \in Conns : PeerSend(src)
    \/ \E src \in Conns : PeerEnd(src)
    \/ \E src \in Conns : CopyData(src)
    \/ ProcessClientClose
    \/ ProcessClientReturn

Spec == Init /\ [][Next]_vars

\* Scheduling: a task that can take a step of its own takes it; the peers
\* (PeerSend, PeerEnd) and the reads and dials that wait for them owe nothing.
FairSpec ==
    /\ Spec
    /\ WF_vars(HandleClients)
    /\ WF_vars(ProcessClientFilter)
    /\ WF_vars(ProcessClientSplice)
    /\ \A src \in Conns : WF_vars(CopyData(src))
    /\ WF_vars(ProcessClientClose)
    /\ WF_vars(ProcessClientReturn)

(***************************************************************************)
(* The blacklist on its own: the Filter of a new Context, the operations   *)
(* main and the sessions call on it, in any order.  No session runs.       *)
(***************************************************************************)
sessionVars == <<acceptVars,
                 Proxies, ReportIP, clientStream, clientRead, state, store, err,
                 parseVars, clientOut, remoteVars, remoteCloses, clientCloses,
                 deferred, spliceVars, logged>>

InitFilter ==
    /\ Proxies = <<>>
    /\ ReportIP = <<203, 0, 113, 7>>
    /\ Domains = <<>>
    /\ FileName = ""
    /\ \E e \in Environments : jsonFile = e.file /\ listText = e.text
    /\ call = "none"
    /\ arg = <<>>
    /\ ret = <<>>
    /\ before = [Domains |-> <<>>, FileName |-> ""]
    /\ appended = <<>>
    /\ AcceptorIdle
    /\ pc = "main"
    /\ clientStream = <<>>
    /\ clientRead = 0
    /\ state = 0
    /\ store = 0
    /\ err = "nil"
    /\ RequestData = <<>>
    /\ RemoteHost = <<>>
    /\ RemotePort = 0
    /\ clientOut = <<>>
    /\ Proxy = ZeroProxy
    /\ authType = 0
    /\ dials = <<>>
    /\ remoteOpened = FALSE
    /\ remoteCloses = 0
    /\ clientCloses = 0
    /\ deferred = <<>>
    /\ upstreamStream = <<>>
    /\ upstreamRead = 0
    /\ upstreamOut = <<>>
    /\ response = <<>>
    /\ proxyport = 0
    /\ copy = [c \in Conns |-> "idle"]
    /\ ReadCount = [c \in Conns |-> 0]
    /\ n = [c \in Conns |-> 0]
    /\ transferred = [c \in Conns |-> 0]
    /\ srcEnd = [c \in Conns |-> "open"]
    /\ logged = <<>>

\* Filter.Matches(item)
Matches(item) ==
    /\ pc = "main"
    /\ call' = "Matches"
    /\ arg' = item
    /\ before' = [Domains |-> Domains, FileName |-> FileName]
    /\ ret' = <<FilterMatches(Domains, item)>>
    /\ Domains' = MatchesDomains(Domains, item)
    /\ UNCHANGED <<FileName, jsonFile, listText, appended, pc, sessionVars>>

\* Filter.LoadFile(file): the path is remembered first; Open, Stat or Read
\* may fail (Open of a missing file does); then json.Unmarshal into Domains
\* and, if that reported no error, deduplicate.
LoadFile(file) ==
    /\ pc = "main"
    /\ call' = "LoadFile"
    /\ arg' = file
    /\ before' = [Domains |-> Domains, FileName |-> FileName]
    /\ FileName' = file
    /\ \/ /\ ret' = <<FALSE>>
          /\ UNCHANGED <<Domains, appended>>
       \/ /\ file = "blacklist.json"
          /\ CASE jsonFile.json = "syntax" ->
                     /\ ret' = <<FALSE>>
                     /\ UNCHANGED <<Domains, appended>>
               [] jsonFile.json = "type" ->
                     /\ ret' = <<FALSE>>
                     /\ Domains' = jsonFile.entries
                     /\ UNCHANGED appended
               [] OTHER ->
                     /\ ret' = <<TRUE>>
                     /\ appended' = jsonFile.entries
                     /\ Domains' = deduplicate(jsonFile.entries)
    /\ UNCHANGED <<jsonFile, listText, pc, sessionVars>>

\* the two loops of LoadListFile and LoadHTTP on the bytes read, then
\* deduplicate; a panic in the second loop leaves what was appended so far
IngestLines(data) ==
    LET list == ScanLines(data, <<>>, <<>>)
        r == ParseLines(list, Domains)
    IN  /\ appended' = r.Domains
        /\ IF r.panic
           THEN /\ Domains' = r.Domains
                /\ ret' = <<>>
                /\ pc' = "crashed"
           ELSE /\ Domains' = deduplicate(r.Domains)
                /\ ret' = <<TRUE, Len(list)>>
                /\ pc' = pc

\* Filter.LoadListFile(file): Open, Stat or Read may fail
LoadListFile ==
    /\ pc = "main"
    /\ call' = "LoadListFile"
    /\ arg' = listText
    /\ before' = [Domains |-> Domains, FileName |-> FileName]
    /\ \/ /\ ret' = <<FALSE, 0>>
          /\ UNCHANGED <<Domains, appended, pc>>
       \/ IngestLines(listText)
    /\ UNCHANGED <<FileName, jsonFile, listText, sessionVars>>

\* Filter.LoadHTTP(url): http.Get or ReadAll may fail
LoadHTTP ==
    /\ pc = "main"
    /\ call' = "LoadHTTP"
    /\ arg' = listText
    /\ before' = [Domains |-> Domains, FileName |-> FileName]
    /\ \/ /\ ret' = <<FALSE, 0>>
          /\ UNCHANGED <<Domains, appended, pc>>
       \/ IngestLines(listText)
    /\ UNCHANGED <<FileName, jsonFile, listText, sessionVars>>

NextFilter ==
    \/ \E item \in Hosts : Matches(item)
    \/ \E file \in Paths : LoadFile(file)
    \/ LoadListFile
    \/ LoadHTTP

FilterSpec == InitFilter /\ [][NextFilter]_vars

(***************************************************************************)
(* The acceptor on its own: Listen accepts connections and sends them on   *)
(* ClientConnections; HandleClients receives them, parses the remote       *)
(* address and starts a processClient task for each.  Connections are      *)
(* numbered in the order of Accept; the tasks themselves are not modelled  *)
(* here beyond their start and their return.                               *)
(***************************************************************************)
\* make(chan socks5.ClientCtx, 10)
ChannelCap == 10

InitAccept ==
    /\ AcceptorIdle
    /\ pc = "listen"
    /\ Proxies = <<>>
    /\ ReportIP = <<203, 0, 113, 7>>
    /\ Domains = Blacklist
    /\ FileName = "blacklist.json"
    /\ jsonFile = [json |-> "ok", entries |-> Blacklist]
    /\ listText = <<>>
    /\ call = "none"
    /\ arg = <<>>
    /\ ret = <<>>
    /\ before = [Domains |-> <<>>, FileName |-> ""]
    /\ appended = <<>>
    /\ clientStream = <<>>
    /\ clientRead = 0
    /\ state = 0
    /\ store = 0
    /\ err = "nil"
    /\ RequestData = <<>>
    /\ RemoteHost = <<>>
    /\ RemotePort = 0
    /\ clientOut = <<>>
    /\ Proxy = ZeroProxy
    /\ authType = 0
    /\ dials = <<>>
    /\ remoteOpened = FALSE
    /\ remoteCloses = 0
    /\ clientCloses = 0
    /\ deferred = <<>>
    /\ upstreamStream = <<>>
    /\ upstreamRead = 0
    /\ upstreamOut = <<>>
    /\ response = <<>>
    /\ proxyport = 0
    /\ copy = [c \in Conns |-> "idle"]
    /\ ReadCount = [c \in Conns |-> 0]
    /\ n = [c \in Conns |-> 0]
    /\ transferred = [c \in Conns |-> 0]
    /\ srcEnd = [c \in Conns |-> "open"]
    /\ logged = <<>>

\* what no step of the acceptor or the dispatcher touches
restVars == <<pc, Domains, filterVars, Proxies, ReportIP, clientStream,
              clientRead, state, store, err, parseVars, clientOut, remoteVars,
              remoteCloses, clientCloses, deferred, spliceVars, logged>>

\* Listen: listener.Accept() returns a connection
ListenAccept ==
    /\ listenPc = "accept"
    /\ accepted < MaxConns
    /\ accepted' = accepted + 1
    /\ connection' = accepted + 1
    /\ listenPc' = "send"
    /\ UNCHANGED <<ClientConnections, closed, handlePc, started, dropped, ended,
                   restVars>>

\* Listen: listener.Accept() fails; break, return, the deferred close runs
ListenAcceptError ==
    /\ listenPc = "accept"
    /\ listenPc' = "returned"
    /\ closed' = TRUE
    /\ UNCHANGED <<accepted, connection, ClientConnections, handlePc, started,
                   dropped, ended, restVars>>

\* Listen: ctx.ClientConnections <- ClientCtx{...}; waits while the channel
\* holds ChannelCap connections
ListenSend ==
    /\ listenPc = "send"
    /\ Len(ClientConnections) < ChannelCap
    /\ ClientConnections' = Append(ClientConnections, connection)
    /\ connection' = 0
    /\ listenPc' = "accept"
    /\ UNCHANGED <<accepted, closed, handlePc, started, dropped, ended, restVars>>

\* HandleClients: a connection is received; SplitHostPort or Atoi of its
\* remote address fails and HandleClients returns, or processClient is
\* started for it
HandleClientsReceive ==
    /\ handlePc = "receive"
    /\ ClientConnections # <<>>
    /\ ClientConnections' = Tail(ClientConnections)
    /\ \E parsed \in BOOLEAN :
         IF parsed
         THEN /\ started' = started \cup {Head(ClientConnections)}
              /\ UNCHANGED <<handlePc, dropped>>
         ELSE /\ dropped' = Head(ClientConnections)
              /\ handlePc' = "returned"
              /\ UNCHANGED started
    /\ UNCHANGED <<accepted, connection, listenPc, closed, ended, restVars>>

\* HandleClients: the channel is closed and empty (ok == false): return
HandleClientsClosed ==
    /\ handlePc = "receive"
    /\ ClientConnections = <<>>
    /\ closed
    /\ handlePc' = "returned"
    /\ UNCHANGED <<accepted, connection, listenPc, ClientConnections, closed,
                   started, dropped, ended, restVars>>

\* a processClient task returns, after however long
ProcessClientEnds ==
    /\ ended < Cardinality(started)
    /\ ended' = ended + 1
    /\ UNCHANGED <<accepted, connection, listenPc, ClientConnections, closed,
                   handlePc, started, dropped, restVars>>

NextAccept ==
    \/ ListenAccept
    \/ ListenAcceptError
    \/ ListenSend
    \/ HandleClientsReceive
    \/ HandleClientsClosed
    \/ ProcessClientEnds

AcceptSpec == InitAccept /\ [][NextAccept]_vars

\* Scheduling: Listen and HandleClients take the step they can take; when a
\* connection arrives, and when a task returns, is up to the peers.
FairAcceptSpec ==
    /\ AcceptSpec
    /\ WF_vars(ListenSend)
    /\ WF_vars(HandleClientsReceive)
    /\ WF_vars(HandleClientsClosed)


(***************************************************************************)
(* The wire formats, read off the byte streams themselves.                 *)
(***************************************************************************)
\* length of ADDR in a stream s whose ATYP byte is at position k
WireAddrLen(s, k) ==
    CASE s[k] = 1 -> 4
      [] s[k] = 4 -> 16
      [] s[k] = 3 -> 1 + s[k + 1]
      [] OTHER -> 0

\* length of the client's greeting VER NMETHODS METHODS
ClientGreetingLen == 2 + clientStream[2]

\* the client sent a greeting and a CONNECT request VER CMD RSV ATYP ADDR PORT
ClientWellFormed ==
    LET g == ClientGreetingLen IN
    /\ clientStream[1] = 5
    /\ clientStream[2] > 0
    /\ Len(clientStream) >= g + 5
    /\ clientStream[g + 1] = 5
    /\ clientStream[g + 2] = 1
    /\ clientStream[g + 4] \in {1, 3, 4}
    /\ Len(clientStream) >= g + 4 + WireAddrLen(clientStream, g + 4) + 2

\* the client's CONNECT request: its bytes after the greeting
ClientRequest ==
    LET g == ClientGreetingLen IN
    SubSeq(clientStream, g + 1, g + 4 + WireAddrLen(clientStream, g + 4) + 2)

\* the selected descriptor asks for no authentication
NoAuthSelected == Len(Proxy.Username) = 0 /\ Len(Proxy.Password) = 0

\* what a conforming upstream sends before its CONNECT reply
UpstreamPreamble == IF NoAuthSelected THEN <<5, 0>> ELSE <<5, 2, 1, 0>>

\* length of the upstream's whole handshake, up to the second PORT byte
UpstreamHandshakeLen ==
    LET p == Len(UpstreamPreamble) IN
    p + 4 + WireAddrLen(upstreamStream, p + 4) + 2

\* the upstream sent: method accepted, auth 01 00 if asked, 05 00 RSV ATYP ADDR PORT
UpstreamConforms ==
    LET p == Len(UpstreamPreamble) IN
    /\ Len(upstreamStream) >= p + 5
    /\ SubSeq(upstreamStream, 1, p) = UpstreamPreamble
    /\ upstreamStream[p + 1] = 5
    /\ upstreamStream[p + 2] = 0
    /\ upstreamStream[p + 4] \in {1, 3, 4}
    /\ Len(upstreamStream) >= UpstreamHandshakeLen

\* the bytes written to the upstream after the greeting and the
\* sub-negotiation message
SubNegotiationLen == 3 + Len(Proxy.Username) + Len(Proxy.Password)
ConnectSent == Len(upstreamOut) > 3 + SubNegotiationLen
SentConnect == SubSeq(upstreamOut, 3 + SubNegotiationLen + 1, Len(upstreamOut))

\* processClient has returned
Exited == pc \in {"done", "crashed"}

\* an entry of the blacklist is a suffix of the lowercased host
Blocked(host) ==
    \E i \in 1..Len(Domains) :
        LET name == Domains[i].Name
            q == ToLower(host)
        IN  /\ Len(q) >= Len(name)
            /\ \A k \in 1..Len(name) : q[Len(q) - Len(name) + k] = name[k]

(***************************************************************************)
(* Claims.                                                                 *)
(***************************************************************************)

\* C1: relayed mode with a descriptor without credentials: once the upstream
\* has answered the greeting with 05 00 (and nothing has failed), what the engine has sent after its
\* greeting is the CONNECT request 05 01 addrBytes port and nothing else
\* (no 01 uLen .. pLen .. message), and it is not waiting for a
\* sub-negotiation reply (states 3 and 4).
C1_NoAuthGoesToConnect ==
    ( /\ remoteOpened
      /\ NoAuthSelected
      /\ err = "nil"
      /\ upstreamRead >= 2
      /\ upstreamStream[1] = 5
      /\ upstreamStream[2] = 0 )
    => /\ SubSeq(upstreamOut, 4, Len(upstreamOut))
            = <<5, 1>> \o RequestData \o PortBytes(RemotePort)
       /\ ~(pc = "upstream" /\ state \in {3, 4})

\* C2: relayed mode, the upstream attempt failed (dial, write, read, or any
\* rejected byte): the client was sent the method reply and then exactly
\* 05 01 addrBytes 00 00, whatever byte the upstream failed with; the remote
\* was closed if it was opened; no success reply, no splice.
C2_FailureReplyUniform ==
    ( /\ pc \in {"return", "done"}
      /\ Len(Proxies) > 0
      /\ Len(dials) > 0
      /\ err # "nil" )
    => /\ clientOut = <<5, 0>> \o <<5, 1>> \o RequestData \o <<0, 0>>
       /\ remoteCloses = (IF remoteOpened THEN 1 ELSE 0)
       /\ \A c \in Conns : copy[c] = "idle"
       /\ \A i \in 1..Len(logged) : logged[i] # "Opened"

\* C2 witness: the upstream refused the CONNECT with REP = 02 and the session
\* has ended
C2_Witness ==
    /\ pc = "done"
    /\ err = "command failed"
    /\ upstreamStream[6] = 2

\* C3: relayed mode, the upstream sends a complete handshake (method
\* accepted, 01 00 if credentials were sent, 05 00 RSV ATYP ADDR PORT with
\* ATYP in {1,3,4}): the state machine stops at the second PORT byte, reads
\* nothing beyond it, and the client is sent 05 00 followed by the reply's
\* bytes from RSV through PORT.
C3_SuccessReplyForwarded ==
    ( /\ remoteOpened
      /\ Len(Proxies) > 0
      /\ UpstreamConforms
      /\ upstreamRead >= UpstreamHandshakeLen )
    => /\ upstreamRead = UpstreamHandshakeLen
       /\ pc # "upstream"
       /\ clientOut = <<5, 0>> \o <<5, 0>>
                      \o SubSeq(upstreamStream, Len(UpstreamPreamble) + 3,
                                UpstreamHandshakeLen)

\* C4: when processInbound returns without error, addrBytes is the client's
\* RSV, ATYP and address bytes, ATYP is 1, 3 or 4, and nothing else is in it.
C4_AddrBytesWireForm ==
    (pc = "parsed" /\ err = "nil")
    => LET g == ClientGreetingLen IN
       /\ Len(RequestData) >= 2
       /\ RequestData[2] \in {1, 3, 4}
       /\ RequestData = SubSeq(clientStream, g + 3,
                               g + 4 + WireAddrLen(clientStream, g + 4))

\* C5: for a well-formed client request, the CONNECT request sent to the
\* upstream is byte-equal to the client's request.
C5_RequestRoundTrip ==
    (ConnectSent /\ ClientWellFormed) => SentConnect = ClientRequest

\* C5 witness: a CONNECT for a domain name was sent to the upstream
C5_Witness ==
    /\ ConnectSent
    /\ ClientWellFormed
    /\ clientStream[ClientGreetingLen + 4] = 3
    /\ clientStream[ClientGreetingLen + 5] = MaxDomainLen

\* C6: after the splice, each connection's ReadCount is the number of bytes
\* that were moved from it to the other side, however the copies ended.
C6_ReadCountExact ==
    (pc \in {"return", "done"} /\ \A c \in Conns : copy[c] = "returned")
    => \A c \in Conns : ReadCount[c] = transferred[c]

\* C7 (as claimed): once one copy has returned, the session reaches its
\* finalization, whatever the peer of the other direction does.
C7_EitherEndTerminatesBoth ==
    (pc = "wait" /\ \E c \in Conns : copy[c] = "returned") ~> (pc = "done")

\* C7 (amended): a copy returns only when its own stream has ended (EOF or
\* error); once both streams have ended, both copies return and the session
\* is finalized: close message, both transports closed.
C7_BothEndsTerminate ==
    /\ [][\A c \in Conns :
            (copy[c] # "returned" /\ copy'[c] = "returned") => srcEnd[c] # "open"]_vars
    /\ (pc = "wait" /\ \A c \in Conns : srcEnd[c] # "open")
         ~> ( /\ pc = "done"
              /\ logged[Len(logged)] = "Closed"
              /\ clientCloses >= 1
              /\ remoteCloses >= 1 )

\* C7 witness: the remote ended first and its copy returned while the
\* client's stream was still open; later the session was finalized
C7_Witness ==
    /\ pc = "done"
    /\ srcEnd["Remote"] = "eof"
    /\ srcEnd["Client"] = "error"
    /\ transferred["Remote"] > 0

C9_BlacklistHitSilent ==
    ( /\ pc \notin {"queued", "inbound", "parsed"}
      /\ err = "nil"
      /\ Blocked(RemoteHost) )
    => /\ clientOut = <<5, 0>>
       /\ dials = <<>>
       /\ ~remoteOpened
       /\ pc \in {"return", "done"}
       /\ pc = "done" => clientCloses >= 1

\* C9 witness: a session for a blacklisted host has ended
C9_Witness ==
    /\ pc = "done"
    /\ err = "nil"
    /\ Blocked(RemoteHost)
    /\ logged = <<"Blacklisted">>

\* C10: direct mode.  After a successful dial the client was sent 05 00 00,
\* 01 and the 4 bytes of an IPv4 ReportIP or else 04 and its 16 bytes, then
\* the local port big-endian (203.0.113.7 and 40000: 05 00 00 01 cb 00 71 07
\* 9c 40); after a failed dial 05 01 addrBytes 00 00, and the operation fails.
C10_DirectReplies ==
    (Len(Proxies) = 0 /\ Len(dials) > 0)
    => LET v4 == \/ Len(ReportIP) = 4
                 \/ /\ Len(ReportIP) = 16
                    /\ SubSeq(ReportIP, 1, 12) = Repeat(0, 10) \o <<255, 255>>
           ip4 == SubSeq(ReportIP, Len(ReportIP) - 3, Len(ReportIP))
           reply == SubSeq(clientOut, 3, Len(clientOut))
       IN  /\ SubSeq(clientOut, 1, 2) = <<5, 0>>
           /\ remoteOpened =>
                /\ err = "nil"
                /\ reply = <<5, 0, 0>>
                           \o (IF v4 THEN <<1>> \o ip4 ELSE <<4>> \o ReportIP)
                           \o <<proxyport \div 256, proxyport % 256>>
                /\ (ReportIP = <<203, 0, 113, 7>> /\ proxyport = 40000)
                     => reply = <<5, 0, 0, 1, 203, 0, 113, 7, 156, 64>>
           /\ ~remoteOpened =>
                /\ err # "nil"
                /\ reply = <<5, 1>> \o RequestData \o <<0, 0>>

\* C10 witness: direct dial succeeded, ReportIP 203.0.113.7 in its 16-byte
\* form, local port 40000
C10_Witness ==
    /\ Len(Proxies) = 0
    /\ remoteOpened
    /\ Len(ReportIP) = 16
    /\ ReportIP[16] = 7
    /\ proxyport = 40000
    /\ pc = "opened"

(***************************************************************************)
(* C11: when the selected descriptor has a username or a password longer   *)
(* than 255 bytes, the session writes 05 01 + addrBytes + 00 00 to the     *)
(* client, dials nothing and fails as a session (processOutbound returns   *)
(* an error, the process goes on); credentials of exactly 255 bytes pass   *)
(* the check and the proxy is dialled; either way the descriptor stays in  *)
(* the pool.                                                               *)
(***************************************************************************)
Oversized(proxy) == Len(proxy.Username) > 255 \/ Len(proxy.Password) > 255

C11_OversizedFailsSession ==
    (pc \in {"upstream", "opened", "wait", "return", "done", "crashed"}
        /\ Proxy # ZeroProxy)
    => /\ \E i \in 1..Len(Proxies) : Proxies[i] = Proxy
       /\ IF Oversized(Proxy)
          THEN /\ clientOut = <<5, 0, 5, 1>> \o RequestData \o <<0, 0>>
               /\ dials = <<>>
               /\ err \notin {"nil", "panic"}
               /\ pc \in {"return", "done"}
          ELSE Len(dials) = 1

(***************************************************************************)
(* C12: for a client request with ATYP 03 and length byte 00, the inbound  *)
(* parse is complete once the two bytes after the length byte are read:    *)
(* destHost is empty, addrBytes is RSV 03 00, destPort is those two bytes, *)
(* and no later byte of the client is consumed by the parser.              *)
(***************************************************************************)
\* the client sent a CONNECT request for a domain name of length zero
ClientZeroLengthDomain ==
    LET g == ClientGreetingLen IN
    /\ clientStream[1] = 5
    /\ clientStream[2] > 0
    /\ Len(clientStream) >= g + 7
    /\ clientStream[g + 1] = 5
    /\ clientStream[g + 2] = 1
    /\ clientStream[g + 4] = 3
    /\ clientStream[g + 5] = 0

C12_ZeroLengthDomain ==
    LET g == ClientGreetingLen IN
    (ClientZeroLengthDomain /\ clientRead >= g + 7)
    => /\ clientRead = g + 7
       /\ pc # "inbound"
       /\ RemoteHost = <<>>
       /\ RequestData = <<clientStream[g + 3], 3, 0>>
       /\ RemotePort = 256 * clientStream[g + 6] + clientStream[g + 7]

(***************************************************************************)
(* The blacklist claims, read off the call records of the Filter.          *)
(***************************************************************************)
\* the bytes of name are the last bytes of s
NameIsSuffix(name, s) ==
    /\ Len(s) >= Len(name)
    /\ \A k \in 1..Len(name) : s[Len(s) - Len(name) + k] = name[k]

\* the last call was op and it returned b
Returned(op, b) == call = op /\ Len(ret) >= 1 /\ ret[1] = b

\* the last call was an ingest that succeeded
SuccessfulIngest ==
    \/ Returned("LoadFile", TRUE)
    \/ Returned("LoadListFile", TRUE)
    \/ Returned("LoadHTTP", TRUE)

\* the indices of the entries of domains that suffix-match lower(h)
Hitting(domains, h) ==
    {i \in 1..Len(domains) : NameIsSuffix(domains[i].Name, ToLower(h))}

\* the least element of a non-empty set of numbers
Least(S) == CHOOSE i \in S : \A m \in S : i <= m

\* C13: a call of Filter.Matches(h) that returns true leaves the stored hits
\* counter of the first entry that suffix-matches lower(h) one greater than
\* before and every other counter and every name as they were; a call that
\* returns false changes nothing.  (k such calls in a row then add k.)
C13_HitCounted ==
    call = "Matches"
    => LET hit == Hitting(before.Domains, arg)
       IN  IF hit = {}
           THEN ret = <<FALSE>> /\ Domains = before.Domains
           ELSE /\ ret = <<TRUE>>
                /\ Domains = [before.Domains EXCEPT
                                 ![Least(hit)].Hits = @ + 1]

\* C14: Filter.Matches(h) returns true exactly if some entry's name is, byte
\* for byte, the end of lower(h); no dot boundary, no case for IP literals.
C14_MatchesIffSuffix ==
    call = "Matches" => ret = <<Hitting(before.Domains, arg) # {}>>

\* C14 witness: with b.com in the blacklist, the host xb.com was looked up
\* and reported blocked
C14_Witness ==
    /\ Returned("Matches", TRUE)
    /\ arg = <<120, 98, 46, 99, 111, 109>>
    /\ \E i \in 1..Len(Domains) : Domains[i].Name = <<98, 46, 99, 111, 109>>

\* the indices of list whose name is not the end of the name of a later entry
Surviving(list) ==
    {i \in 1..Len(list) :
        ~ \E j \in (i + 1)..Len(list) : NameIsSuffix(list[i].Name, list[j].Name)}

\* the k-th smallest element of a set of numbers
Kth(S, k) == CHOOSE i \in S : Cardinality({m \in S : m <= i}) = k

\* C15: deduplicate drops entry i exactly if a later entry of the list it was
\* given has a name that ends with (or equals) entry i's name; the others
\* stay in their order; a.com, sub.a.com, b.com becomes sub.a.com, b.com; and
\* afterwards no entry's name is the end of a later entry's name.
C15_DeduplicateRule ==
    SuccessfulIngest
    => /\ Len(Domains) = Cardinality(Surviving(appended))
       /\ \A k \in 1..Len(Domains) :
              Domains[k] = appended[Kth(Surviving(appended), k)]
       /\ \A i \in 1..Len(Domains) : \A j \in (i + 1)..Len(Domains) :
              ~NameIsSuffix(Domains[i].Name, Domains[j].Name)
       /\ appended = << [Name |-> <<97, 46, 99, 111, 109>>, Hits |-> 0],
                        [Name |-> <<115, 117, 98, 46, 97, 46, 99, 111, 109>>,
                         Hits |-> 0],
                        [Name |-> <<98, 46, 99, 111, 109>>, Hits |-> 0] >>
          => Domains = << [Name |-> <<115, 117, 98, 46, 97, 46, 99, 111, 109>>,
                           Hits |-> 0],
                          [Name |-> <<98, 46, 99, 111, 109>>, Hits |-> 0] >>

\* C15 witness: a.com, sub.a.com, b.com was loaded and a.com was dropped
C15_Witness ==
    /\ Returned("LoadFile", TRUE)
    /\ Len(appended) = 3
    /\ appended[1].Name = <<97, 46, 99, 111, 109>>
    /\ Len(Domains) = 2
    /\ Domains[1].Name = <<115, 117, 98, 46, 97, 46, 99, 111, 109>>

\* C16: after a successful ingest no entry's name is the end of another
\* entry's name, whichever of the two comes first in the list.
C16_NoSuffixEitherOrder ==
    SuccessfulIngest
    => \A i \in 1..Len(Domains) : \A j \in 1..Len(Domains) :
           i # j => ~NameIsSuffix(Domains[i].Name, Domains[j].Name)

\* C16 as amended: after a successful ingest no entry's name is the end of
\* the name of an entry that comes later in the list.
C16_NoSuffixOfLater ==
    SuccessfulIngest
    => \A i \in 1..Len(Domains) : \A j \in 1..Len(Domains) :
           i < j => ~NameIsSuffix(Domains[i].Name, Domains[j].Name)

\* C16 witness: an ingest of several lines left ba before a
C16_Witness ==
    /\ Returned("LoadListFile", TRUE)
    /\ ret[2] >= 2
    /\ Len(Domains) = 2
    /\ Domains[1].Name = <<98, 97>>
    /\ Domains[2].Name = <<97>>

\* C17: a call of LoadFile that returns false leaves the entries and the
\* remembered load path as they were.
C17_FailedLoadChangesNothing ==
    Returned("LoadFile", FALSE)
    => /\ Domains = before.Domains
       /\ FileName = before.FileName


\* s without the spaces at its two ends
Trimmed(s) ==
    LET ns == {k \in 1..Len(s) : s[k] # 32}
    IN  IF ns = {} THEN <<>>
        ELSE SubSeq(s, Least(ns), CHOOSE k \in ns : \A m \in ns : m <= k)

\* the bytes of s after its last space
LastField(s) ==
    LET sp == {k \in 1..Len(s) : s[k] = 32}
    IN  IF sp = {} THEN s
        ELSE SubSeq(s, (CHOOSE k \in sp : \A m \in sp : m <= k) + 1, Len(s))

\* the entries the line format yields for the text t from byte i on: one for
\* each maximal run of bytes other than LF and CR that, lowercased and
\* trimmed, does not start with '#'
RECURSIVE LineEntries(_, _)
LineEntries(t, i) ==
    IF i > Len(t) THEN <<>>
    ELSE IF t[i] \in {10, 13} THEN LineEntries(t, i + 1)
    ELSE LET ends == {e \in i..Len(t) :
                         /\ \A k \in i..e : t[k] \notin {10, 13}
                         /\ (e = Len(t) \/ t[e + 1] \in {10, 13})}
             e == Least(ends)
             line == Trimmed(ToLower(SubSeq(t, i, e)))
         IN  (IF Len(line) > 0 /\ line[1] = 35 THEN <<>>
              ELSE <<[Name |-> LastField(line), Hits |-> 0]>>)
             \o LineEntries(t, e + 1)

\* C18: a line-format ingest that returns has appended, in input order, one
\* entry {lastField, 0} for every non-empty segment between LF or CR bytes
\* that is not a comment, the segment after the last terminator included.
C18_EverySegmentIngested ==
    (Returned("LoadListFile", TRUE) \/ Returned("LoadHTTP", TRUE))
    => appended = before.Domains \o LineEntries(arg, 1)


(***************************************************************************)
(* C19: what a session writes to its client, and when.  The first write is *)
(* the method reply 05 00, made in the step that reads the last of the     *)
(* NMETHODS method bytes; processInbound writes nothing else.  The only    *)
(* other write is one CONNECT reply (05 00 ... or 05 01 addrBytes 00 00),  *)
(* made in the step that ends processOutbound: after the dial returned     *)
(* (direct), with the upstream's reply read up to its last PORT byte       *)
(* (relayed), or with the failure.  A session that got past the parse and  *)
(* the blacklist has written it when processOutbound is over.  A CopyData  *)
(* task exists only after the success reply.                               *)
(***************************************************************************)
\* the elements of a sequence
Range(seq) == {seq[i] : i \in 1..Len(seq)}

\* out is the method reply and a success reply
SuccessWritten(out) == Len(out) > 4 /\ SubSeq(out, 1, 4) = <<5, 0, 5, 0>>

\* out is the method reply and the one success reply of direct mode
DirectSuccess(out) ==
    /\ Len(out) >= 6
    /\ out[6] \in {1, 4}
    /\ Len(out) = 6 + WireAddrLen(out, 6) + 2

\* out is the method reply and 05 00 with the upstream's bytes from some RSV
\* byte up to the byte read last
RelayedSuccess(out, stream, read) ==
    \E k \in 5..read : out = <<5, 0, 5, 0>> \o SubSeq(stream, k, read)

\* out is the method reply and the one failure reply
FailureWritten(out) == out = <<5, 0, 5, 1>> \o RequestData \o <<0, 0>>

C19_ReplyOrdering ==
    /\ [] /\ pc \in {"queued", "inbound", "parsed"}
                => clientOut \in {<<>>, <<5, 0>>}
          /\ clientOut # <<>>
                => /\ SubSeq(clientOut, 1, 2) = <<5, 0>>
                   /\ clientRead >= 2 + clientStream[2]
          /\ ( /\ pc \in {"opened", "wait", "return", "done", "crashed"}
               /\ "Invalid request" \notin Range(logged)
               /\ "Blacklisted" \notin Range(logged) )
                => SuccessWritten(clientOut) \/ FailureWritten(clientOut)
          /\ (\E c \in Conns : copy[c] # "idle") => SuccessWritten(clientOut)
    /\ [][ clientOut' # clientOut
             => IF clientOut = <<>>
                THEN /\ pc = "inbound"
                     /\ clientOut' = <<5, 0>>
                     /\ clientRead' = 2 + clientStream[2]
                ELSE /\ clientOut = <<5, 0>>
                     /\ pc \in {"outbound", "upstream"}
                     /\ IF pc' = "opened"
                        THEN /\ SuccessWritten(clientOut')
                             /\ err' = "nil"
                             /\ Len(dials') = 1
                             /\ IF Len(Proxies) = 0
                                THEN DirectSuccess(clientOut')
                                ELSE RelayedSuccess(clientOut', upstreamStream,
                                                    upstreamRead')
                        ELSE /\ pc' = "return"
                             /\ FailureWritten(clientOut')
                             /\ err' # "nil" ]_vars

\* C19 witness: a relayed session whose client announced two methods is in
\* the splice
C19_Witness ==
    /\ clientStream[2] = 2
    /\ Len(Proxies) > 0
    /\ copy["Client"] # "idle"
    /\ copy["Remote"] # "idle"
    /\ SuccessWritten(clientOut)


\* the position in the client's stream of the first byte that breaks the
\* state table (VER, NMETHODS, VER, CMD, ATYP), or 0 if none does
ViolationAt ==
    LET s == clientStream
        g == 2 + s[2]
    IN  CASE s[1] # 5 -> 1
          [] s[1] = 5 /\ s[2] = 0 -> 2
          [] s[1] = 5 /\ s[2] > 0 /\ Len(s) >= g + 1 /\ s[g + 1] # 5 -> g + 1
          [] s[1] = 5 /\ s[2] > 0 /\ Len(s) >= g + 2 /\ s[g + 1] = 5
               /\ s[g + 2] # 1 -> g + 2
          [] s[1] = 5 /\ s[2] > 0 /\ Len(s) >= g + 4 /\ s[g + 1] = 5
               /\ s[g + 2] = 1 /\ s[g + 4] \notin {1, 3, 4} -> g + 4
          [] OTHER -> 0

\* C20: once the parser has read the first client byte that breaks the state
\* table, the parse has ended with an error: no further client byte is read,
\* nothing but the method reply was written, nothing is dialled, and the
\* session goes on to its return and the close of its client transport.
C20_ViolationTerminal ==
    (ViolationAt > 0 /\ clientRead >= ViolationAt)
    => /\ clientRead = ViolationAt
       /\ err # "nil"
       /\ pc \in {"parsed", "return", "done"}
       /\ clientOut \in {<<>>, <<5, 0>>}
       /\ dials = <<>>
       /\ ~remoteOpened
       /\ pc = "done" => clientCloses >= 1


(***************************************************************************)
(* C21: the completion barrier of the splice.  While a CopyData task has   *)
(* not returned, the session has logged no close message and closed        *)
(* neither transport; the close message is logged, and a transport closed, *)
(* only in a step taken with both tasks returned.  ReadCount of a          *)
(* connection changes only in a step of the one task that reads from that  *)
(* connection, and not at all once the close message (which reports the    *)
(* two counts) is logged.                                                  *)
(***************************************************************************)
C21_CompletionBarrier ==
    /\ [] ((\E c \in Conns : copy[c] = "copying")
             => /\ "Closed" \notin Range(logged)
                /\ remoteCloses = 0
                /\ clientCloses = 0)
    /\ [][ /\ ( \/ Len(logged') > Len(logged) /\ logged'[Len(logged')] = "Closed"
                \/ (pc \in {"wait", "return"} /\ "Opened" \in Range(logged)
                      /\ (remoteCloses' # remoteCloses
                            \/ clientCloses' # clientCloses)) )
               => \A c \in Conns : copy[c] = "returned"
           /\ \A c \in Conns :
                ReadCount'[c] # ReadCount[c]
                  => /\ copy[c] = "copying"
                     /\ "Closed" \notin Range(logged)
                     /\ \A d \in Conns \ {c} : ReadCount'[d] = ReadCount[d] ]_vars

\* C21 witness: a session whose two copies moved bytes and returned has
\* logged the close message and closed both transports
C21_Witness ==
    /\ pc = "done"
    /\ logged = <<"Opened", "Closed">>
    /\ \A c \in Conns : copy[c] = "returned" /\ ReadCount[c] > 0
    /\ remoteCloses = 1
    /\ clientCloses = 1


(***************************************************************************)
(* C22: a session dials at most once.  With an empty pool the dial goes to *)
(* destHost:destPort, without TLS; with a non-empty pool it goes to the    *)
(* host and port of the one descriptor the session selected, which is a    *)
(* member of the pool.  Once a dial was made no other is made, and the     *)
(* selected descriptor never changes, whatever fails afterwards.           *)
(***************************************************************************)
C22_OneOutboundAttempt ==
    /\ [] /\ Len(dials) <= 1
          /\ dials # <<>>
               => IF Len(Proxies) = 0
                  THEN dials[1] = [Host |-> RemoteHost, Port |-> RemotePort,
                                   TLS |-> FALSE]
                  ELSE /\ \E i \in 1..Len(Proxies) : Proxy = Proxies[i]
                       /\ dials[1] = [Host |-> Proxy.Host, Port |-> Proxy.Port,
                                      TLS |-> Proxy.UseTLS]
          /\ Len(Proxies) = 0 => Proxy = ZeroProxy
    /\ [][ /\ dials # <<>> => dials' = dials
           /\ Proxy # ZeroProxy => Proxy' = Proxy ]_vars

\* C22 witness: from a pool of two the second descriptor was dialled, its
\* handshake failed and the session ended with that one dial
C22_Witness ==
    /\ Len(Proxies) = 2
    /\ Proxy = Proxies[2]
    /\ Proxy # Proxies[1]
    /\ pc = "done"
    /\ err \notin {"nil", "dial"}
    /\ Len(dials) = 1
    /\ dials[1].Host = Proxies[2].Host


(***************************************************************************)
(* C23: every connection Listen accepted is eventually taken from the      *)
(* channel by HandleClients and given its own processClient task (or is    *)
(* itself the connection whose address did not parse), whatever happened   *)
(* to earlier connections; and while Listen runs, a full ClientConnections *)
(* channel does not stay full.                                             *)
(***************************************************************************)
C23_EveryAcceptedDispatched ==
    /\ \A id \in 1..MaxConns :
           (accepted >= id) ~> (id \in started \/ id = dropped)
    /\ (Len(ClientConnections) = ChannelCap /\ listenPc # "returned")
           ~> (Len(ClientConnections) < ChannelCap \/ listenPc = "returned")


\* C24: an ingest that succeeds blocks every host it blocked before
\* deduplicate ran: a host that some entry of the list handed to deduplicate
\* suffix-matches is still suffix-matched by some entry of the list that
\* deduplicate leaves, so Filter.Matches answers the same on both lists.
C24_DeduplicatePreservesBlocking ==
    SuccessfulIngest
    => \A h \in Hosts :
           Hitting(appended, h) # {} <=> Hitting(Domains, h) # {}


\* C25: LoadListFile and LoadHTTP return normally on every input: no call
\* ends in the index-out-of-range panic of line[0] on a line that is empty
\* after the spaces are trimmed.
C25_LineIngestTotal ==
    call \in {"LoadListFile", "LoadHTTP"} => (ret # <<>> /\ pc # "crashed")

====
